---- MODULE Spec2Model ----
(***************************************************************************)
(* Pi Monte Carlo visualizer: the sample collection, the convergence       *)
(* tracker and the animator of the two App components of the repository.   *)
(*                                                                         *)
(* src/unnamed/part_001 holds two versions of the App component:           *)
(*   impl = 1  lines 25-279: the animation loop is a setInterval whose     *)
(*             setBalls updater calls updateStats(ball) for every ball     *)
(*             that lands (incremental tracker), increment 0.05;           *)
(*   impl = 2  lines 288-558: the animation loop is a requestAnimationFrame*)
(*             callback, increment 0.08, and a separate useEffect          *)
(*             recomputes the statistics from the landed subset.           *)
(*                                                                         *)
(* Representation.                                                         *)
(*   - A ball keeps the fields the tracker and the animator read:          *)
(*     inSquare, progress, status.  progress is kept in hundredths         *)
(*     (0.05 -> 5, 0.08 -> 8, 1 -> 100); with IEEE doubles the sums        *)
(*     0.05*k and 0.08*k first reach >= 1 at k = 20 and k = 13, as the     *)
(*     exact hundredths do.                                                *)
(*   - estimatedPi = (2 * total) / inSquare is a quotient of two small     *)
(*     integers; it is kept as the reduced fraction <<num, den>>, which    *)
(*     determines the double the division returns.  A division by zero     *)
(*     gives JavaScript's Infinity or NaN (JsInfinity, JsNaN).             *)
(*   - error = |PI - estimatedPi| / PI is kept as the term                 *)
(*     [kind |-> "rel", of |-> estimatedPi]; the literal 0 that the        *)
(*     initial state and resetSimulation write is [kind |-> "zero", ...].  *)
(*   - State setters are applied in the order they are enqueued; the       *)
(*     variables hold the state with every enqueued update applied.        *)
(*   - The statistics effect of version 2 is a closure of the render that  *)
(*     scheduled it: it reads the balls and stats.totalInCircle of that    *)
(*     render.  `effect` holds the pending effect with the values it       *)
(*     closed over (at most one is pending: React flushes a pending        *)
(*     passive effect before it renders again).  An event handler (a       *)
(*     click, an animation frame) that runs between the commit and the     *)
(*     flush of the effect enqueues its updates first; `missed` counts     *)
(*     these handlers, at most MaxMissed per pending effect.               *)
(*   - budget is the number of balls the behaviour may still drop.         *)
(*   - call is the state of one call of getPiInsight                       *)
(*     (src/services/geminiService.ts), which no component calls: the      *)
(*     simulation leaves it alone.                                         *)
(*   - runs holds the simulations that SpecPair runs side by side on the   *)
(*     same drops, ticks and resets; it is empty elsewhere.  In SpecPair   *)
(*     budget counts the drops left.                                       *)
(***************************************************************************)
EXTENDS Integers, Sequences, FiniteSets, TLC

VARIABLES impl, balls, stats, history, isSimulationRunning, effect, missed,
          budget, call, runs

vars == <<impl, balls, stats, history, isSimulationRunning, effect, missed,
          budget, call, runs>>

(***************************************************************************)
(* Bounds of the model.                                                    *)
(***************************************************************************)
\* Balls that may be dropped in one behaviour of Spec (all drops together).
MaxBalls == 2
\* The largest count passed to dropBalls in Spec; the smallest is -1.
MaxCount == 2
\* Event handlers that may run while one statistics effect is pending.
MaxMissed == 1
\* SpecLong: drops of HistoryEvery balls in the warm-up ...
LongRounds == 99
\* ... and the balls dropped after it, in units of HistoryEvery.
LongDrops == 2
\* SpecStrict: the most times React invokes one state updater function.
MaxInvocations == 2
\* SpecPair: the drops of one behaviour.
PairDrops == 3

(***************************************************************************)
(* Program constants.                                                      *)
(***************************************************************************)
\* progress: 1 (in hundredths)
ProgressOne == 100
\* ball.progress + 0.05 (version 1), in hundredths
Increment1 == 5
\* ball.progress + 0.08 (version 2), in hundredths
Increment2 == 8
\* newTotal % 10 === 0, landedCount % 10 === 0
HistoryEvery == 10
\* nextHistory.slice(-100)
HistoryKeep == 100

(***************************************************************************)
(* Numbers.                                                                *)
(***************************************************************************)
RECURSIVE Gcd(_, _)
Gcd(a, b) == IF b = 0 THEN a ELSE Gcd(b, a % b)

JsNaN == <<0, 0>>
JsInfinity == <<1, 0>>
JsZero == <<0, 1>>

\* a / b on non-negative integers, as the double JavaScript returns.
JsDivide(a, b) ==
    IF b = 0 THEN (IF a = 0 THEN JsNaN ELSE JsInfinity)
    ELSE <<a \div Gcd(a, b), b \div Gcd(a, b)>>

\* Math.abs(Math.PI - estimatedPi) / Math.PI
RelativeError(estimatedPi) == [kind |-> "rel", of |-> estimatedPi]

\* the literal error: 0
ZeroError == [kind |-> "zero", of |-> JsZero]

\* Array.from({ length: count }, ...): ToLength clamps a negative length to 0.
ToLength(count) == IF count < 0 THEN 0 ELSE count

\* No call of getPiInsight has been made.
IdleCall == [pc |-> "idle"]

(***************************************************************************)
(* Balls.                                                                  *)
(***************************************************************************)
\* generateBall: inSquare is decided by the random landing point.
generateBall(inSquare) ==
    [inSquare |-> inSquare, progress |-> 0, status |-> "falling"]

\* The initial value of stats, also written by resetSimulation.
ZeroStats ==
    [totalInCircle |-> 0, totalInSquare |-> 0, estimatedPi |-> JsZero,
     error |-> ZeroError]

\* balls.filter(b => b.status === 'landed')
landedBalls(bs) == SelectSeq(bs, LAMBDA b : b.status = "landed")

\* landedBalls.filter(b => b.inSquare).length
inSquareCount(bs) == Len(SelectSeq(bs, LAMBDA b : b.inSquare))

\* changed / hasChanges: some ball of the array is falling.
AnyFalling(bs) == \E i \in 1..Len(bs) : bs[i].status = "falling"

\* Array.from({ length: count }, generateBall)
newBalls(count, squares) ==
    [i \in 1..ToLength(count) |-> generateBall(squares[i])]

\* setBalls(prev => [...prev, ...newBalls])
appendBalls(prev, new) == prev \o new

(***************************************************************************)
(* Version 1: updateStats and the setInterval animation loop.              *)
(***************************************************************************)
\* updateStats with the two counters swapped: every ball is counted in the
\* square and only the balls in the square in the circle.
updateStatsSwapped(s, landedBall) ==
    LET prev == s[1]
        newTotal == prev.totalInCircle + (IF landedBall.inSquare THEN 1 ELSE 0)
        newInSquare == prev.totalInSquare + 1
        estimatedPi == IF newInSquare > 0 THEN JsDivide(2 * newTotal, newInSquare)
                       ELSE JsZero
    IN  << [totalInCircle |-> newTotal, totalInSquare |-> newInSquare,
            estimatedPi |-> estimatedPi, error |-> RelativeError(estimatedPi)],
           s[2] >>

\* The setStats updater of updateStats, with the setHistory it issues:
\* s is <<stats, history>> before, the result <<stats, history>> after.
updateStats(s, landedBall) ==
    LET prev == s[1]
        newTotal == prev.totalInCircle + 1
        newInSquare == prev.totalInSquare + (IF landedBall.inSquare THEN 1 ELSE 0)
        estimatedPi == IF newInSquare > 0 THEN JsDivide(2 * newTotal, newInSquare)
                       ELSE JsZero
        error == RelativeError(estimatedPi)
    IN  << [totalInCircle |-> newTotal, totalInSquare |-> newInSquare,
            estimatedPi |-> estimatedPi, error |-> error],
           IF newTotal % HistoryEvery = 0
           THEN Append(s[2], [index |-> newTotal, value |-> estimatedPi])
           ELSE s[2] >>

\* The map callback of the interval's setBalls updater.
intervalBall(ball) ==
    IF ball.status = "falling"
    THEN LET nextProgress == ball.progress + Increment1
         IN  IF nextProgress >= ProgressOne
             THEN [ball EXCEPT !.progress = ProgressOne, !.status = "landed"]
             ELSE [ball EXCEPT !.progress = nextProgress]
    ELSE ball

\* Whether the map callback calls updateStats(ball).
landsNow(ball) ==
    ball.status = "falling" /\ ball.progress + Increment1 >= ProgressOne

\* The balls for which one interval tick calls updateStats, in array order.
landingBalls(bs) == SelectSeq(bs, landsNow)

\* The updateStats calls of one interval tick: s is <<stats, history>>.
RECURSIVE applyUpdates(_, _, _)
applyUpdates(s, landing, i) ==
    IF i > Len(landing) THEN s
    ELSE applyUpdates(updateStats(s, landing[i]), landing, i + 1)

intervalStats(s, bs) == applyUpdates(s, landingBalls(bs), 1)

\* prev.map(...) of the interval's setBalls updater.
intervalBalls(prev) == [i \in 1..Len(prev) |-> intervalBall(prev[i])] \o <<>>

\* if (!changed) setIsSimulationRunning(false)
runningAfterTick(bs, running) == IF AnyFalling(bs) THEN running ELSE FALSE

\* The interval callback.  The interval exists only while balls is not empty.
IntervalTick ==
    /\ impl = 1
    /\ Len(balls) # 0
    /\ balls' = intervalBalls(balls)
    /\ LET s == intervalStats(<<stats, history>>, balls)
       IN  stats' = s[1] /\ history' = s[2]
    /\ isSimulationRunning' = runningAfterTick(balls, isSimulationRunning)
    /\ UNCHANGED <<impl, effect, missed, budget, call, runs>>

(***************************************************************************)
(* Version 2: the animate callback and the statistics effect.              *)
(***************************************************************************)
\* animateBall without the clamp: a ball lands with the progress it reached.
animateBallUnclamped(ball) ==
    IF ball.status = "falling"
    THEN LET nextProgress == ball.progress + Increment2
         IN  IF nextProgress >= ProgressOne
             THEN [ball EXCEPT !.progress = nextProgress, !.status = "landed"]
             ELSE [ball EXCEPT !.progress = nextProgress]
    ELSE ball

\* animateBall that clamps the progress and leaves the status falling.
animateBallNeverLands(ball) ==
    IF ball.status = "falling"
    THEN LET nextProgress == ball.progress + Increment2
         IN  IF nextProgress >= ProgressOne
             THEN [ball EXCEPT !.progress = ProgressOne]
             ELSE [ball EXCEPT !.progress = nextProgress]
    ELSE ball

\* animateBall that sends a landed ball back to the start of its fall.
animateBallRestarts(ball) ==
    IF ball.status = "falling"
    THEN LET nextProgress == ball.progress + Increment2
         IN  IF nextProgress >= ProgressOne
             THEN [ball EXCEPT !.progress = ProgressOne, !.status = "landed"]
             ELSE [ball EXCEPT !.progress = nextProgress]
    ELSE [ball EXCEPT !.progress = 0]

\* The map callback of animate's setBalls updater.
animateBall(ball) ==
    IF ball.status = "falling"
    THEN LET nextProgress == ball.progress + Increment2
         IN  IF nextProgress >= ProgressOne
             THEN [ball EXCEPT !.progress = ProgressOne, !.status = "landed"]
             ELSE [ball EXCEPT !.progress = nextProgress]
    ELSE ball

\* animate's setBalls updater: return hasChanges ? next : prev
animateBalls(prev) ==
    IF AnyFalling(prev) THEN [i \in 1..Len(prev) |-> animateBall(prev[i])] \o <<>>
    ELSE prev

\* The effect a render schedules: it closes over that render's balls and
\* stats.totalInCircle.
Closure(bs, total) == <<[balls |-> bs, total |-> total]>>

\* The dependency list [balls, stats.totalInCircle]: whether the effect runs
\* again.  (A new array holding the same balls also re-runs the effect; with
\* no effect pending that run changes nothing, and it is left out.)
depsChanged(oldBalls, oldTotal, newBallsNow, newTotal) ==
    newBallsNow # oldBalls \/ newTotal # oldTotal

\* An event handler may run only while it would not be the (MaxMissed+1)-th
\* one that a pending effect waits through.
HandlerMayRun == effect = <<>> \/ missed < MaxMissed

\* The pending effect after an event handler.  A pending effect stays: it
\* runs, with the values it closed over, before the handler's updates are
\* rendered.  Otherwise the render schedules one when a dependency changed.
AfterHandler ==
    IF impl = 1 THEN effect' = <<>> /\ missed' = 0
    ELSE IF effect # <<>> THEN effect' = effect /\ missed' = missed + 1
    ELSE /\ missed' = 0
         /\ effect' = (IF depsChanged(balls, stats.totalInCircle,
                                      balls', stats'.totalInCircle)
                       THEN Closure(balls', stats'.totalInCircle)
                       ELSE <<>>)

\* The animate callback (requestAnimationFrame).
Animate ==
    /\ impl = 2
    /\ HandlerMayRun
    /\ balls' = animateBalls(balls)
    /\ UNCHANGED <<impl, stats, history, isSimulationRunning, budget, call, runs>>
    /\ AfterHandler

\* effectStats without the guard on the divisor.
effectStatsUnguarded(bs) ==
    LET landedCount == Len(landedBalls(bs))
        inSquareCnt == inSquareCount(landedBalls(bs))
        estimatedPi == JsDivide(2 * landedCount, inSquareCnt)
    IN  [totalInCircle |-> landedCount, totalInSquare |-> inSquareCnt,
         estimatedPi |-> estimatedPi, error |-> RelativeError(estimatedPi)]

\* The statistics the effect sets from the balls it closed over.
effectStats(bs) ==
    LET landedCount == Len(landedBalls(bs))
        inSquareCnt == inSquareCount(landedBalls(bs))
        estimatedPi == IF inSquareCnt > 0 THEN JsDivide(2 * landedCount, inSquareCnt)
                       ELSE JsZero
    IN  [totalInCircle |-> landedCount, totalInSquare |-> inSquareCnt,
         estimatedPi |-> estimatedPi, error |-> RelativeError(estimatedPi)]

\* h.slice(-n)
SliceLast(h, n) ==
    IF Len(h) <= n THEN h ELSE SubSeq(h, Len(h) - n + 1, Len(h))

\* effectHistory that puts the new point first.
effectHistoryPrepends(h, landedCount, estimatedPi) ==
    IF Len(h) > 0 /\ h[Len(h)].index = landedCount THEN h
    ELSE SliceLast(<<[index |-> landedCount, value |-> estimatedPi]>> \o h,
                   HistoryKeep)

\* The setHistory updater of the effect.
effectHistory(h, landedCount, estimatedPi) ==
    IF Len(h) > 0 /\ h[Len(h)].index = landedCount THEN h
    ELSE SliceLast(Append(h, [index |-> landedCount, value |-> estimatedPi]),
                   HistoryKeep)

\* Whether the effect records a history point.
recordsPoint(landedCount) ==
    landedCount % HistoryEvery = 0 \/ landedCount = 1

\* The body of the statistics effect: bs and total are the balls and the
\* stats.totalInCircle it closed over, s is <<stats, history>> when its
\* setters are applied, the result <<stats, history>> after them.
statsEffect(bs, total, s) ==
    LET landedCount == Len(landedBalls(bs))
        new == effectStats(bs)
    IN  IF landedCount > total
        THEN << new,
                IF recordsPoint(landedCount)
                THEN effectHistory(s[2], landedCount, new.estimatedPi)
                ELSE s[2] >>
        ELSE s

\* The statistics effect runs; the render that follows schedules it again
\* when a dependency differs from what this run closed over.
StatsEffect ==
    /\ impl = 2
    /\ effect # <<>>
    /\ LET c == effect[1]
           s == statsEffect(c.balls, c.total, <<stats, history>>)
       IN  /\ stats' = s[1]
           /\ history' = s[2]
           /\ effect' = (IF depsChanged(c.balls, c.total, balls, s[1].totalInCircle)
                         THEN Closure(balls, s[1].totalInCircle)
                         ELSE <<>>)
    /\ missed' = 0
    /\ UNCHANGED <<impl, balls, isSimulationRunning, budget, call, runs>>

(***************************************************************************)
(* Both versions: dropBalls and resetSimulation.                           *)
(***************************************************************************)
\* The isSimulationRunning flag after dropBalls: version 1 sets it.
runningAfterDrop(version, running) == IF version = 1 THEN TRUE ELSE running

dropBalls(count, squares) ==
    /\ HandlerMayRun
    /\ balls' = appendBalls(balls, newBalls(count, squares))
    /\ isSimulationRunning' = runningAfterDrop(impl, isSimulationRunning)
    /\ UNCHANGED <<impl, stats, history, call, runs>>
    /\ AfterHandler

\* The samples a drop of `count` balls may draw.
Squares(count) == [1..ToLength(count) -> BOOLEAN]

Drop ==
    \E count \in -1..MaxCount :
        /\ ToLength(count) <= budget
        /\ budget' = budget - ToLength(count)
        /\ \E squares \in Squares(count) : dropBalls(count, squares)

\* resetSimulation that forgets setHistory([]).
resetHistoryKept == history

\* The balls, statistics and history resetSimulation sets.
resetBalls == <<>>
resetStats == ZeroStats
resetHistory == <<>>

resetSimulation ==
    /\ HandlerMayRun
    /\ balls' = resetBalls
    /\ stats' = resetStats
    /\ history' = resetHistory
    /\ UNCHANGED <<impl, isSimulationRunning, budget, call, runs>>
    /\ AfterHandler

(***************************************************************************)
(* The specification: every interleaving of the handlers, few balls.       *)
(***************************************************************************)
Init ==
    /\ impl \in {1, 2}
    /\ balls = <<>>
    /\ stats = ZeroStats
    /\ history = <<>>
    /\ isSimulationRunning = FALSE
    /\ effect = <<>>
    /\ missed = 0
    /\ budget = MaxBalls
    /\ call = IdleCall
    /\ runs = <<>>

Next ==
    \/ Drop
    \/ IntervalTick
    \/ Animate
    \/ StatsEffect
    \/ resetSimulation

Spec == Init /\ [][Next]_vars

(***************************************************************************)
(* The same handlers without resets, with the scheduling the browser       *)
(* gives: the interval and the animation frame keep firing, a scheduled    *)
(* effect runs.                                                            *)
(***************************************************************************)
NextLive ==
    \/ Drop
    \/ IntervalTick
    \/ Animate
    \/ StatsEffect

SpecLive ==
    /\ Init
    /\ [][NextLive]_vars
    /\ WF_vars(IntervalTick)
    /\ WF_vars(Animate)
    /\ WF_vars(StatsEffect)

(***************************************************************************)
(* Long runs, from the same initial state.  Balls are dropped only while   *)
(* none is falling, and whether ball j of the collection hits the square   *)
(* is fixed.  During the warm-up, the first LongRounds drops, every drop   *)
(* is of HistoryEvery balls and there is no reset; after it the drops are  *)
(* of 1, HistoryEvery - 1 or HistoryEvery balls and resets are free.       *)
(***************************************************************************)
\* Ball j of the collection hits the square (2 of every 3 do).
LongSquare(j) == j % 3 # 0

LongSquares(len, count) == [i \in 1..ToLength(count) |-> LongSquare(len + i)]

WarmUp == budget > LongDrops * HistoryEvery

LongCounts == IF WarmUp THEN {HistoryEvery} ELSE {1, HistoryEvery - 1, HistoryEvery}

InitLong ==
    /\ impl \in {1, 2}
    /\ balls = <<>>
    /\ stats = ZeroStats
    /\ history = <<>>
    /\ isSimulationRunning = FALSE
    /\ effect = <<>>
    /\ missed = 0
    /\ budget = (LongRounds + LongDrops) * HistoryEvery
    /\ call = IdleCall
    /\ runs = <<>>

DropLong ==
    \E count \in LongCounts :
        /\ ~AnyFalling(balls)
        /\ count <= budget
        /\ budget' = budget - count
        /\ dropBalls(count, LongSquares(Len(balls), count))

ResetLong == ~WarmUp /\ resetSimulation

NextLong ==
    \/ DropLong
    \/ IntervalTick
    \/ Animate
    \/ StatsEffect
    \/ ResetLong

SpecLong == InitLong /\ [][NextLong]_vars

(***************************************************************************)
(* Updater functions that React invokes more than once.  React requires    *)
(* the function passed to a state setter to be pure and may call it again  *)
(* with the same previous state (in Strict Mode it calls it twice).  The   *)
(* setBalls updater of version 1 calls updateStats, which enqueues a       *)
(* setStats updater, on every invocation; the array it returns is the      *)
(* same.  The updaters of version 2 enqueue nothing.                       *)
(***************************************************************************)
\* The updateStats calls of `times` invocations of the interval's setBalls
\* updater on the same array.
RECURSIVE intervalStatsInvoked(_, _, _)
intervalStatsInvoked(s, bs, times) ==
    IF times = 0 THEN s
    ELSE intervalStatsInvoked(intervalStats(s, bs), bs, times - 1)

\* The interval callback, its updater invoked once or more.
IntervalTickInvoked ==
    /\ impl = 1
    /\ Len(balls) # 0
    /\ balls' = intervalBalls(balls)
    /\ \E times \in 1..MaxInvocations :
           LET s == intervalStatsInvoked(<<stats, history>>, balls, times)
           IN  stats' = s[1] /\ history' = s[2]
    /\ isSimulationRunning' = runningAfterTick(balls, isSimulationRunning)
    /\ UNCHANGED <<impl, effect, missed, budget, call, runs>>

NextStrict ==
    \/ Drop
    \/ IntervalTickInvoked
    \/ Animate
    \/ StatsEffect
    \/ resetSimulation

SpecStrict == Init /\ [][NextStrict]_vars

(***************************************************************************)
(* Simulations side by side.  A run is one App: the version of its         *)
(* tracker, the increment of its animation loop, and its balls, stats and  *)
(* history.  Every run receives the same drops (the same balls), ticks and *)
(* resets.  A handler of version 2 is followed by the statistics effect of *)
(* the render it causes, before the next handler: the runs are compared    *)
(* with no tracker update pending.                                         *)
(***************************************************************************)
\* The map callback of the animation loop with the increment it adds.
fallBy(ball, increment) ==
    IF ball.status = "falling"
    THEN LET nextProgress == ball.progress + increment
         IN  IF nextProgress >= ProgressOne
             THEN [ball EXCEPT !.progress = ProgressOne, !.status = "landed"]
             ELSE [ball EXCEPT !.progress = nextProgress]
    ELSE ball

\* landsBy that holds on every tick of a falling ball.
landsByEveryTick(ball, increment) == ball.status = "falling"

\* Whether the map callback lands the ball (version 1: calls updateStats).
landsBy(ball, increment) ==
    ball.status = "falling" /\ ball.progress + increment >= ProgressOne

NewRun(version, increment) ==
    [version |-> version, increment |-> increment, balls |-> <<>>,
     stats |-> ZeroStats, history |-> <<>>]

\* The statistics effect of a run of version 2, after a handler that left
\* the balls bs: it closes over bs and the stats.totalInCircle of the run.
runEffect(r, bs, s) ==
    IF r.version = 2 THEN statsEffect(bs, s[1].totalInCircle, s) ELSE s

\* dropBalls
runDrop(r, new) ==
    LET bs == appendBalls(r.balls, new)
        s == runEffect(r, bs, <<r.stats, r.history>>)
    IN  [r EXCEPT !.balls = bs, !.stats = s[1], !.history = s[2]]

\* One tick: the interval callback of version 1 with its updateStats calls,
\* the animate callback of version 2 with the effect that follows it.
runTick(r) ==
    LET moved == [i \in 1..Len(r.balls) |-> fallBy(r.balls[i], r.increment)] \o <<>>
        landing == SelectSeq(r.balls, LAMBDA b : landsBy(b, r.increment))
        s == IF r.version = 1
             THEN applyUpdates(<<r.stats, r.history>>, landing, 1)
             ELSE runEffect(r, moved, <<r.stats, r.history>>)
    IN  [r EXCEPT !.balls = moved, !.stats = s[1], !.history = s[2]]

\* resetSimulation
runReset(r) ==
    LET s == runEffect(r, resetBalls, <<resetStats, resetHistory>>)
    IN  [r EXCEPT !.balls = resetBalls, !.stats = s[1], !.history = s[2]]

\* The runs: each tracker with each of the two increments of the source.
PairRuns ==
    << NewRun(1, Increment1), NewRun(1, Increment2),
       NewRun(2, Increment1), NewRun(2, Increment2) >>

\* The drops of SpecPair: one ball, in the square or not, or a batch that
\* with one more ball makes HistoryEvery.
PairBalls(len) ==
    {newBalls(1, sq) : sq \in Squares(1)}
        \cup {newBalls(HistoryEvery - 1, LongSquares(len, HistoryEvery - 1))}

InitPair ==
    /\ impl = 1
    /\ balls = <<>>
    /\ stats = ZeroStats
    /\ history = <<>>
    /\ isSimulationRunning = FALSE
    /\ effect = <<>>
    /\ missed = 0
    /\ budget = PairDrops
    /\ call = IdleCall
    /\ runs = PairRuns

PairDrop ==
    /\ budget > 0
    /\ budget' = budget - 1
    /\ \E new \in PairBalls(Len(runs[1].balls)) :
           runs' = [i \in 1..Len(runs) |-> runDrop(runs[i], new)]
    /\ UNCHANGED <<impl, balls, stats, history, isSimulationRunning, effect,
                   missed, call>>

PairTick ==
    /\ runs' = [i \in 1..Len(runs) |-> runTick(runs[i])]
    /\ UNCHANGED <<impl, balls, stats, history, isSimulationRunning, effect,
                   missed, budget, call>>

PairReset ==
    /\ runs' = [i \in 1..Len(runs) |-> runReset(runs[i])]
    /\ UNCHANGED <<impl, balls, stats, history, isSimulationRunning, effect,
                   missed, budget, call>>

NextPair ==
    \/ PairDrop
    \/ PairTick
    \/ PairReset

SpecPair == InitPair /\ [][NextPair]_vars

(***************************************************************************)
(* getPiInsight (src/services/geminiService.ts).  The function is a        *)
(* sequence of steps: the client is constructed and the prompt built       *)
(* outside the try block, generateContent is awaited and response.text     *)
(* returned inside it, and the catch block returns the fallback string.    *)
(* The @google/genai library is not part of the repository: what its       *)
(* constructor does with a missing key and how its request settles are     *)
(* choices over the outcomes the library can produce.                      *)
(***************************************************************************)
\* The string the catch block returns.
Fallback ==
    "The laws of probability are currently contemplating your request. Try dropping more balls!"

\* process.env.API_KEY: a key the service accepts, one it rejects, or none.
ApiKeys == {"valid", "invalid", "missing"}

\* The argument of getPiInsight: the four numbers of a tracker state.
InsightArgs ==
    UNION {{[total |-> n, square |-> k,
             estimate |-> (IF k > 0 THEN JsDivide(2 * n, k) ELSE JsZero),
             error |-> RelativeError(IF k > 0 THEN JsDivide(2 * n, k)
                                     ELSE JsZero)] : k \in 0..n} :
               n \in 0..MaxBalls}

\* The prompt: the template with the four numbers filled in.
prompt(args) ==
    <<"Total balls dropped", args.total, "inscribed square", args.square,
      "Pi estimation", args.estimate, "Percentage Error", args.error>>

\* new GoogleGenAI({ apiKey }): with no key the library either throws or
\* builds a client whose requests fail.
ClientOutcomes(apiKey) ==
    IF apiKey = "missing" THEN {"client", "throws"} ELSE {"client"}

\* How ai.models.generateContent settles: it resolves with a response that
\* has text, resolves with a response that has none (response.text is
\* undefined), or rejects (network, authentication, quota, unreadable body).
Responses(apiKey) ==
    IF apiKey = "valid"
    THEN {[kind |-> "text", text |-> "insight"], [kind |-> "noText"],
          [kind |-> "rejects"]}
    ELSE {[kind |-> "rejects"]}

\* The try block with its catch: return response.text, or the fallback when
\* the awaited promise rejected.
returnValue(response) ==
    IF response.kind = "rejects" THEN [kind |-> "string", value |-> Fallback]
    ELSE IF response.kind = "text" THEN [kind |-> "string", value |-> response.text]
    ELSE [kind |-> "undefined"]

\* getPiInsight is called.
getPiInsight ==
    /\ call.pc = "idle"
    /\ \E apiKey \in ApiKeys : \E args \in InsightArgs :
           call' = [pc |-> "client", apiKey |-> apiKey, args |-> args]
    /\ UNCHANGED <<impl, balls, stats, history, isSimulationRunning, effect,
                   missed, budget, runs>>

\* const ai = getAiClient(); const prompt = ...: an exception of the
\* constructor is outside the try block and rejects the promise returned.
getAiClient ==
    /\ call.pc = "client"
    /\ \E outcome \in ClientOutcomes(call.apiKey) :
           call' = IF outcome = "throws"
                   THEN [pc |-> "done", apiKey |-> call.apiKey, args |-> call.args,
                         result |-> [kind |-> "rejected"]]
                   ELSE [pc |-> "request", apiKey |-> call.apiKey, args |-> call.args,
                         contents |-> prompt(call.args)]
    /\ UNCHANGED <<impl, balls, stats, history, isSimulationRunning, effect,
                   missed, budget, runs>>

\* await ai.models.generateContent({ model, contents: prompt }) settles.
generateContent ==
    /\ call.pc = "request"
    /\ \E response \in Responses(call.apiKey) :
           call' = [pc |-> "return", apiKey |-> call.apiKey, args |-> call.args,
                    response |-> response]
    /\ UNCHANGED <<impl, balls, stats, history, isSimulationRunning, effect,
                   missed, budget, runs>>

\* return response.text, or the return of the catch block.
InsightReturn ==
    /\ call.pc = "return"
    /\ call' = [pc |-> "done", apiKey |-> call.apiKey, args |-> call.args,
                response |-> call.response,
                result |-> returnValue(call.response)]
    /\ UNCHANGED <<impl, balls, stats, history, isSimulationRunning, effect,
                   missed, budget, runs>>

NextInsight ==
    \/ getPiInsight
    \/ getAiClient
    \/ generateContent
    \/ InsightReturn

SpecInsight == Init /\ [][NextInsight]_vars

(***************************************************************************)
(* Properties.                                                             *)
(***************************************************************************)
LandedCount == Len(landedBalls(balls))
LandedInSquare == inSquareCount(landedBalls(balls))
TrackerIdle == effect = <<>>

\* C1: in every reachable state the number of landed samples counted in the
\* square is at most the number of landed samples counted in the circle.
C1_SquareAtMostCircle == stats.totalInSquare <= stats.totalInCircle

\* C1 witness: a sample outside the square and one inside it have been counted.
C1_Witness == stats.totalInSquare = 1 /\ stats.totalInCircle = 2

C3_CountsMatchLanded ==
    TrackerIdle =>
        /\ stats.totalInCircle = LandedCount
        /\ stats.totalInSquare = LandedInSquare

\* C4: estimatedPi is 2 * totalInCircle / totalInSquare when totalInSquare > 0
\* and 0 otherwise, and is never the result of a division by zero.
C4_EstimateFormula ==
    LET e == stats.estimatedPi
    IN  /\ e[2] > 0
        /\ IF stats.totalInSquare > 0
           THEN e[1] * stats.totalInSquare = 2 * stats.totalInCircle * e[2]
           ELSE e[1] = 0

\* C4 witness: samples have landed and none of them hit the square.
C4_Witness ==
    /\ stats.totalInCircle = 2 /\ stats.totalInSquare = 0
    /\ stats.estimatedPi = JsZero

\* C5: the history is ordered by index with no index twice: the indices
\* increase strictly along the series.
C5_HistoryStrictlyIncreasing ==
    \A i \in 1..(Len(history) - 1) : history[i].index < history[i + 1].index

\* C5 witness: a history of several points, recorded over several rounds.
C5_Witness ==
    /\ Len(history) >= 3
    /\ history[Len(history)].index = 3 * HistoryEvery

\* C6: the history never holds more than HistoryKeep = 100 points, and a
\* point appended to a full history evicts the oldest point and no other.
C6_HistoryBounded ==
    /\ [](Len(history) <= HistoryKeep)
    /\ [][(Len(history) = HistoryKeep /\ history' # history /\ history' # <<>>)
            => /\ Len(history') = HistoryKeep
               /\ SubSeq(history', 1, HistoryKeep - 1) = Tail(history)]_vars

\* C7: a new sample is falling with progress 0; a sample is landed exactly
\* when its progress is 1; only an animation tick turns a falling sample into
\* a landed one; a landed sample is never changed again.
C7_SampleLifecycle ==
    [][/\ \A i \in 1..Len(balls') :
            /\ balls'[i].status \in {"falling", "landed"}
            /\ (balls'[i].status = "landed") <=> (balls'[i].progress = ProgressOne)
            /\ i > Len(balls) =>
                   balls'[i].status = "falling" /\ balls'[i].progress = 0
       /\ \A i \in 1..Len(balls) :
            i <= Len(balls') =>
                /\ balls[i].status = "landed" => balls'[i] = balls[i]
                /\ (balls[i].status = "falling" /\ balls'[i].status = "landed")
                       => (IntervalTick \/ Animate)
                /\ balls'[i].inSquare = balls[i].inSquare]_vars

\* C7 witness: one sample has landed while a later one is still falling.
C7_Witness ==
    /\ Len(balls) = 2
    /\ balls[1].status = "landed"
    /\ balls[2].status = "falling" /\ balls[2].progress > 0

AllLanded ==
    \A i \in 1..Len(balls) :
        balls[i].status = "landed" /\ balls[i].progress = ProgressOne

\* C8: without resets and with ticks that keep occurring, every dropped
\* sample eventually is landed with progress 1, and from some point on
\* totalInCircle is the number of samples dropped.
C8_AllLandAndAreCounted ==
    /\ \A i \in 1..MaxBalls :
           (Len(balls) >= i) ~>
               (/\ Len(balls) >= i
                /\ balls[i].status = "landed"
                /\ balls[i].progress = ProgressOne)
    /\ <>[](AllLanded /\ stats.totalInCircle = Len(balls))

\* C8 witness: two samples, dropped one after the other, have landed and
\* are counted.
C8_Witness ==
    /\ budget = 0 /\ Len(balls) = MaxBalls
    /\ AllLanded
    /\ stats.totalInCircle = MaxBalls
    /\ effect = <<>>

\* C9: a drop of N >= 0 samples appends N falling samples with progress 0
\* after the existing ones, leaves the existing samples, the statistics and
\* the history as they are, and with N = 0 changes nothing.
C9_DropAppends ==
    [][\A count \in 0..MaxCount : \A squares \in Squares(count) :
          dropBalls(count, squares) =>
              /\ Len(balls') = Len(balls) + count
              /\ SubSeq(balls', 1, Len(balls)) = balls
              /\ \A i \in (Len(balls) + 1)..Len(balls') :
                     balls'[i].status = "falling" /\ balls'[i].progress = 0
              /\ stats' = stats
              /\ history' = history
              /\ count = 0 =>
                     UNCHANGED <<balls, stats, history, isSimulationRunning>>]_vars

\* C10: a drop with a count that is not positive leaves the samples, the
\* statistics, the history and the rest of the simulation state as they are.
C10_InvalidDropIsNoOp ==
    [][\A count \in {-1, 0} :
          dropBalls(count, <<>>) =>
              UNCHANGED <<balls, stats, history, isSimulationRunning>>]_vars

\* A call that has settled, and the calls among them that failed: a missing
\* or rejected key, a request that rejected, a response without text.
InsightDone == call.pc = "done"
InsightFailed ==
    \/ call.apiKey # "valid"
    \/ call.result.kind = "rejected"
    \/ call.response.kind \in {"rejects", "noText"}

\* C11: getPiInsight never rejects and never returns a value that is not a
\* string, and on every failure (missing or invalid key, failed request,
\* response without text) what it returns is the fixed fallback string.
C11_InsightFallsBack ==
    InsightDone =>
        /\ call.result.kind = "string"
        /\ InsightFailed => call.result.value = Fallback

\* C12: a sample is counted once.  A tick of the incremental tracker raises
\* totalInCircle by the number of samples that land in it and totalInSquare
\* by those of them in the square, however often its update function is
\* invoked, and with no sample landing it leaves the statistics and the
\* history as they are; a run of the recomputing tracker on a landed set of
\* the size it has already counted changes nothing.
C12_CountedOnce ==
    [][/\ IntervalTickInvoked =>
              /\ stats'.totalInCircle - stats.totalInCircle
                     = Len(landingBalls(balls))
              /\ stats'.totalInSquare - stats.totalInSquare
                     = inSquareCount(landingBalls(balls))
              /\ landingBalls(balls) = <<>> =>
                     (stats' = stats /\ history' = history)
       /\ (StatsEffect
           /\ Len(landedBalls(effect[1].balls)) = stats.totalInCircle) =>
              (stats' = stats /\ history' = history)]_vars

\* The values of totalInCircle at which a history point is due.
HistoryDue(n) == n = 1 \/ (n > 0 /\ n % HistoryEvery = 0)

\* The estimate that held when n samples had landed: the samples land in the
\* order of the collection.
EstimateAt(n) ==
    LET k == inSquareCount(SubSeq(landedBalls(balls), 1, n))
    IN  IF k > 0 THEN JsDivide(2 * n, k) ELSE JsZero

\* C13: whenever totalInCircle becomes 1 or a positive multiple of 10 the
\* point (totalInCircle, estimatedPi) is appended to the history; every
\* index in the history is 1 or a positive multiple of 10, and the value of
\* a point is the estimate that held when totalInCircle was its index.
C13_HistoryCadence ==
    /\ [](\A i \in 1..Len(history) : HistoryDue(history[i].index))
    /\ []((Len(history) > 0 /\ history[Len(history)].index <= LandedCount) =>
              history[Len(history)].value = EstimateAt(history[Len(history)].index))
    /\ [][(stats'.totalInCircle # stats.totalInCircle
           /\ HistoryDue(stats'.totalInCircle)) =>
              /\ Len(history') > 0
              /\ history'[Len(history')] = [index |-> stats'.totalInCircle,
                                            value |-> stats'.estimatedPi]]_vars

\* The progress a tick with the given increment gives a sample.
ProgressAfterTick(ball, increment) ==
    IF ball.status = "landed" THEN ProgressOne
    ELSE IF ball.progress + increment >= ProgressOne THEN ProgressOne
    ELSE ball.progress + increment

\* C14: the progress of every sample is within [0, 1] in every reachable
\* state and never decreases; a tick adds the fixed increment to the progress
\* of a falling sample, makes it exactly 1 when the sum reaches or passes 1,
\* and leaves the progress of a landed sample at 1.
C14_ProgressBounded ==
    /\ [](\A i \in 1..Len(balls) :
              balls[i].progress >= 0 /\ balls[i].progress <= ProgressOne)
    /\ [][\A i \in 1..Len(balls) :
              i <= Len(balls') => balls'[i].progress >= balls[i].progress]_vars
    /\ [][IntervalTick =>
              /\ Len(balls') = Len(balls)
              /\ \A i \in 1..Len(balls) :
                     balls'[i].progress = ProgressAfterTick(balls[i], Increment1)]_vars
    /\ [][Animate =>
              /\ Len(balls') = Len(balls)
              /\ \A i \in 1..Len(balls) :
                     balls'[i].progress = ProgressAfterTick(balls[i], Increment2)]_vars

\* C14 witness: in version 2 a sample whose last increment passed 1 has
\* landed with progress 1, and a falling sample is one tick from passing 1.
C14_Witness ==
    /\ impl = 2 /\ Len(balls) = 2
    /\ balls[1].status = "landed" /\ balls[1].progress = ProgressOne
    /\ balls[2].status = "falling"
    /\ balls[2].progress < ProgressOne
    /\ balls[2].progress + Increment2 > ProgressOne

\* The four statistics and the history of a run.
Output(r) == <<r.stats, r.history>>
RunLanded(r) == ~AnyFalling(r.balls)

\* C15: the incremental tracker and the recomputing tracker, given the same
\* drops, ticks and resets with the same samples, show the same statistics
\* and the same history whenever their samples are in the same state with no
\* tracker update pending.
C15_TrackersEquivalent ==
    \A a, b \in 1..Len(runs) :
        (runs[a].version # runs[b].version /\ runs[a].balls = runs[b].balls)
            => Output(runs[a]) = Output(runs[b])

\* C16: two runs of the same tracker that get the same drops with the same
\* samples and differ in the increment have, once every sample has landed
\* in both, the same statistics and the same history.
C16_IncrementIndependent ==
    \A a, b \in 1..Len(runs) :
        (/\ runs[a].version = runs[b].version
         /\ RunLanded(runs[a]) /\ RunLanded(runs[b]))
            => Output(runs[a]) = Output(runs[b])

\* C16 witness: all the drops are done and HistoryEvery samples, dropped
\* at two moments, have landed in every run; the runs of each tracker show
\* the point recorded at HistoryEvery.
C16_Witness ==
    /\ Len(runs) = 4 /\ budget = 0
    /\ \A a \in 1..Len(runs) :
           /\ RunLanded(runs[a])
           /\ runs[a].stats.totalInCircle = HistoryEvery
           /\ Len(runs[a].history) > 0
           /\ runs[a].history[Len(runs[a].history)].index = HistoryEvery

====
